---- MODULE Spec2Model ----
(***************************************************************************)
(* Courier and parcel management server: the parcel store, the users      *)
(* store (agents carry an availability flag) and the HTTP handlers that   *)
(* write them.  Every await of PATCH /parcels/:id that touches a store is *)
(* a step of its own, so two requests interleave at those points.         *)
(***************************************************************************)
EXTENDS Integers, Sequences, FiniteSets, TLC

\* ------------------------------------------------------------- bounds
\* parcels that can be booked in one behaviour
MaxParcels == 2
\* PATCH /parcels/:id handlers, and POST /users handlers, that can be in flight at once
MaxSlots == 2
\* documents the users store can hold
MaxUsers == 5

\* ------------------------------------------------------------- values
\* a field a JSON body or a stored document does not carry
Absent == "absent"

Status == {"Pending", "Assigned", "InTransit", "Delivered", "Failed", "Cancelled"}

\* the value getCoordinates returns for a hit: {lat, lng}
Coords == "latlng"
\* a thrown exception / rejected promise
Throw == "throw"

Slots == 1..MaxSlots
\* ids a client can put in /parcels/:id; those above Len(parcels) match nothing
ParcelIds == 1..MaxParcels

\* bearer identities: the three registered accounts, or no Authorization header
NoToken == "notoken"
Callers == {"adm", "cus", "ag1", NoToken}

\* what the Nominatim lookup can do: a non-empty list, an empty list, a failed fetch
GeoResponses == {"hit", "empty", "error"}
\* what transporter.sendMail / usersCollection.updateOne can do
CallOutcomes == {"ok", "error"}

VARIABLES
  parcels,  \* parcelsCollection: sequence of documents, _id = index
  users,    \* usersCollection: sequence of documents
  req,      \* PATCH /parcels/:id handlers in flight, by slot
  reg,      \* POST /users handlers in flight, by slot
  res       \* what the step just taken sent out: response, broadcast, email

vars == <<parcels, users, req, reg, res>>

\* ------------------------------------------------------------- documents
\* req.body of POST /parcels: the fields of interest a client may send
BookBodies ==
  [email : {"cus"}, status : {Absent, "Delivered"}, deliveryAgent : {Absent, "ag1"},
   pickup : {Absent, "clientcoords"}, delivery : {Absent, "clientcoords"}]

\* req.body of PATCH /parcels/:id: a status, an agent reference, or both
PatchBodies ==
  { b \in [email : {Absent}, status : Status \cup {Absent},
           deliveryAgent : {Absent, "ag1"}, pickup : {Absent}, delivery : {Absent}] :
      b.status # Absent \/ b.deliveryAgent # Absent }

\* the :email of PATCH /users/role/:email: the admin edits delivery agents
RoleTargets == {"ag1"}

\* req.body of PATCH /users/role/:email
RoleBodies ==
  { [role |-> "deliveryAgent", availability |-> "available"],
    [role |-> Absent, availability |-> "busy"],
    [role |-> Absent, availability |-> "available"] }

\* { ...a, ...b } and { $set: b } on one document: b's fields win
Merge(a, b) == [f \in DOMAIN a |-> IF b[f] # Absent THEN b[f] ELSE a[f]]

\* getCoordinates(address): coordinates, null (Absent), or the fetch's exception
getCoordinates(resp) ==
  IF resp = "hit" THEN Coords ELSE IF resp = "empty" THEN Absent ELSE Throw

\* collection.findOne({email}): index of the first match, 0 for null
FindUser(email) ==
  IF \E i \in 1..Len(users) : users[i].email = email
  THEN CHOOSE i \in 1..Len(users) :
         /\ users[i].email = email
         /\ \A j \in 1..(i - 1) : users[j].email # email
  ELSE 0

\* UpdateUser as an upsert: a document is inserted when none matches
UpdateUserUpsert(email, upd) ==
  LET i == FindUser(email) IN
  IF i = 0 THEN Append(users, [email |-> email, role |-> upd.role,
                               availability |-> upd.availability])
  ELSE [users EXCEPT ![i] = [email |-> @.email,
                             role |-> IF upd.role # Absent THEN upd.role ELSE @.role,
                             availability |-> IF upd.availability # Absent
                                              THEN upd.availability ELSE @.availability]]

\* usersCollection.updateOne({email}, {$set: upd}): first match updated
UpdateUser(email, upd) ==
  LET i == FindUser(email) IN
  IF i = 0 THEN users
  ELSE [users EXCEPT ![i] = [email |-> @.email,
                             role |-> IF upd.role # Absent THEN upd.role ELSE @.role,
                             availability |-> IF upd.availability # Absent
                                              THEN upd.availability ELSE @.availability]]

\* AuthCode without the role check of verifyCustomer / verifyDeliveryAgent / verifyAdmin
AuthCodeTokenOnly(caller, role) ==
  IF caller = NoToken THEN 401 ELSE 0

\* verifyFirebaseToken then a role check: 0 when next() is reached
AuthCode(caller, role) ==
  IF caller = NoToken THEN 401
  ELSE LET i == FindUser(caller) IN
       IF i = 0 \/ users[i].role # role THEN 403 ELSE 0

\* the agent's availability flag reads "available"
Available(email) ==
  LET i == FindUser(email) IN i # 0 /\ users[i].availability = "available"

\* ------------------------------------------------------------- outputs
\* op: the route whose handler took the step ("auth" when a middleware of the
\* route answered instead); code: the HTTP status it sent (0: none
\* yet); emit: io.emit("status-updated") ran; mail: sendMail resolved; geo: what the
\* two lookups of a booking returned; list: the ids of the documents in the body
NoGeo == << >>
Res(op, code, emit, mail) ==
  [op |-> op, code |-> code, emit |-> emit, mail |-> mail, geo |-> NoGeo, list |-> {}]

\* a handler slot: id and status are req.params.id and updateData.status, agent is
\* parcel?.deliveryAgent?.email once read, released whether the availability write
\* ran; wasAssigned remembers that the write replaced the status Assigned
Idle == [pc |-> "idle", id |-> 0, status |-> Absent, wasAssigned |-> FALSE,
         agent |-> Absent, released |-> FALSE]

\* a POST /users handler slot: user is req.body once findOne returned null
NoUser == [email |-> Absent, role |-> Absent, availability |-> Absent]
RegIdle == [pc |-> "idle", user |-> NoUser]

Init ==
  /\ parcels = << >>
  /\ users = << [email |-> "adm", role |-> "admin", availability |-> Absent],
                [email |-> "cus", role |-> "customer", availability |-> Absent],
                [email |-> "ag1", role |-> "deliveryAgent", availability |-> "available"] >>
  /\ req = [s \in Slots |-> Idle]
  /\ reg = [r \in Slots |-> RegIdle]
  /\ res = Res("none", 0, FALSE, FALSE)

\* ------------------------------------------------------------- POST /parcels
\* the document the handler builds from the body and the two lookups
NewParcel(body, pickupCoords, deliveryCoords) ==
  Merge(body, [email |-> Absent, status |-> "Pending", deliveryAgent |-> Absent,
               pickup |-> pickupCoords, delivery |-> deliveryCoords])

\* the handler after both role checks passed: lookups, insert, confirmation email
BookAccepted(body, geoP, geoD, mail) ==
  LET pickupCoords == getCoordinates(geoP)
      deliveryCoords == getCoordinates(geoD)
      geo == <<pickupCoords, IF pickupCoords = Throw THEN Absent ELSE deliveryCoords>>
  IN
  IF pickupCoords = Throw \/ deliveryCoords = Throw
  THEN res' = [Res("book", 500, FALSE, FALSE) EXCEPT !.geo = geo] /\ UNCHANGED parcels
  ELSE IF pickupCoords = Absent \/ deliveryCoords = Absent
  THEN res' = [Res("book", 400, FALSE, FALSE) EXCEPT !.geo = geo] /\ UNCHANGED parcels
  ELSE /\ parcels' = Append(parcels, NewParcel(body, pickupCoords, deliveryCoords))
       /\ res' = [(IF mail = "ok" THEN Res("book", 200, FALSE, TRUE)
                                   ELSE Res("book", 500, FALSE, FALSE)) EXCEPT !.geo = geo]

\* POST /parcels, the whole request (the store keeps at most MaxParcels documents)
BookBy(caller) ==
  /\ Len(parcels) < MaxParcels
  /\ UNCHANGED <<users, req, reg>>
  /\ LET auth == AuthCode(caller, "customer") IN
     IF auth # 0
     THEN res' = Res("auth", auth, FALSE, FALSE) /\ UNCHANGED parcels
     ELSE \E geoP \in GeoResponses :
            IF geoP = "error"
            THEN BookAccepted(CHOOSE b \in BookBodies : TRUE, geoP, geoP, "ok")
            ELSE \E geoD \in GeoResponses :
                   IF geoP = "hit" /\ geoD = "hit"
                   THEN \E body \in BookBodies, mail \in CallOutcomes :
                          BookAccepted(body, geoP, geoD, mail)
                   ELSE BookAccepted(CHOOSE b \in BookBodies : TRUE, geoP, geoD, "ok")

Book == \E caller \in Callers : BookBy(caller)

\* ------------------------------------------------------------- POST /users
\* req.body of POST /users: an address not yet registered, or the registered agent's
RegisterBodies ==
  [email : {"ag0", "ag1"}, role : {"customer"}, availability : {Absent, "busy"}]

FreeReg == CHOOSE r \in Slots : reg[r].pc = "idle" /\ \A t \in 1..(r - 1) : reg[t].pc # "idle"

\* const existingUser = await usersCollection.findOne(query); the 409 or on to the insert
PostUsersFind ==
  /\ \E r \in Slots : reg[r].pc = "idle"
  /\ Len(users) + Cardinality({r \in Slots : reg[r].pc = "insert"}) < MaxUsers
  /\ UNCHANGED <<parcels, users, req>>
  /\ \E user \in RegisterBodies :
       IF FindUser(user.email) # 0
       THEN res' = Res("users", 409, FALSE, FALSE) /\ UNCHANGED reg
       ELSE /\ reg' = [reg EXCEPT ![FreeReg] = [pc |-> "insert", user |-> user]]
            /\ res' = Res("users", 0, FALSE, FALSE)

\* const result = await usersCollection.insertOne(user); res.send(result)
PostUsersInsert(r) ==
  /\ reg[r].pc = "insert"
  /\ users' = Append(users, reg[r].user)
  /\ reg' = [reg EXCEPT ![r] = RegIdle]
  /\ res' = Res("users", 200, FALSE, FALSE)
  /\ UNCHANGED <<parcels, req>>

\* ------------------------------------------------------------- PATCH /users/role/:email
PatchRole ==
  /\ UNCHANGED <<parcels, req, reg>>
  /\ \E caller \in Callers :
       LET auth == AuthCode(caller, "admin") IN
       IF auth # 0
       THEN res' = Res("auth", auth, FALSE, FALSE) /\ UNCHANGED users
       ELSE \E email \in RoleTargets, body \in RoleBodies :
              /\ users' = UpdateUser(email, body)
              /\ res' = Res("role", 200, FALSE, FALSE)

\* ------------------------------------------------------------- PATCH /parcels/:id
\* the statuses whose write is followed by the release and the status email
IsFollowUp(status) == status = "Delivered" \/ status = "Failed"

\* handlers are interchangeable: a new request takes the first free slot
FreeSlot == CHOOSE s \in Slots : req[s].pc = "idle" /\ \A t \in 1..(s - 1) : req[t].pc # "idle"

\* PatchAccepted with the broadcast outside the modifiedCount test
PatchAcceptedUngated(s, id, body) ==
  LET matched == id <= Len(parcels)
      doc == IF matched THEN Merge(parcels[id], body) ELSE Absent
      modified == matched /\ doc # parcels[id]
  IN
  IF ~modified
  THEN /\ res' = Res("patch", 200, TRUE, FALSE)
       /\ UNCHANGED <<parcels, req>>
  ELSE /\ parcels' = [parcels EXCEPT ![id] = doc]
       /\ IF IsFollowUp(body.status)
          THEN /\ req' = [req EXCEPT ![s] = [pc |-> "find", id |-> id, status |-> body.status,
                                             wasAssigned |-> parcels[id].status = "Assigned",
                                             agent |-> Absent,
                                             released |-> FALSE]]
               /\ res' = Res("patch", 0, TRUE, FALSE)
          ELSE /\ res' = Res("patch", 200, TRUE, FALSE)
               /\ UNCHANGED req

\* parcelsCollection.updateOne({_id}, {$set: body}) and what runs up to the next await
PatchAccepted(s, id, body) ==
  LET matched == id <= Len(parcels)
      doc == IF matched THEN Merge(parcels[id], body) ELSE Absent
      modified == matched /\ doc # parcels[id]
  IN
  IF ~modified
  THEN /\ res' = Res("patch", 200, FALSE, FALSE)
       /\ UNCHANGED <<parcels, req>>
  ELSE /\ parcels' = [parcels EXCEPT ![id] = doc]
       /\ IF IsFollowUp(body.status)
          THEN /\ req' = [req EXCEPT ![s] = [pc |-> "find", id |-> id, status |-> body.status,
                                             wasAssigned |-> parcels[id].status = "Assigned",
                                             agent |-> Absent,
                                             released |-> FALSE]]
               /\ res' = Res("patch", 0, TRUE, FALSE)
          ELSE /\ res' = Res("patch", 200, TRUE, FALSE)
               /\ UNCHANGED req

\* the request up to its first await after the write: role checks, then the handler
PatchParcelBy(caller) ==
  /\ \E s \in Slots : req[s].pc = "idle"
  /\ UNCHANGED <<users, reg>>
  /\ LET auth == AuthCode(caller, "deliveryAgent") IN
     IF auth # 0
     THEN res' = Res("auth", auth, FALSE, FALSE) /\ UNCHANGED <<parcels, req>>
     ELSE \E id \in ParcelIds, body \in PatchBodies : PatchAccepted(FreeSlot, id, body)

PatchParcel == \E caller \in Callers : PatchParcelBy(caller)

\* PatchFind with the availability write issued as soon as the parcel is read
PatchFindReleases(s) ==
  /\ req[s].pc = "find"
  /\ LET agentEmail == parcels[req[s].id].deliveryAgent IN
     /\ req' = [req EXCEPT ![s].pc = IF agentEmail # Absent THEN "release" ELSE "mail",
                           ![s].agent = agentEmail]
     /\ users' = UpdateUser(agentEmail, [role |-> Absent, availability |-> "available"])
  /\ res' = Res("patch", 0, FALSE, FALSE)
  /\ UNCHANGED <<parcels, reg>>

\* const parcel = await parcelsCollection.findOne({_id})
PatchFind(s) ==
  /\ req[s].pc = "find"
  /\ LET agentEmail == parcels[req[s].id].deliveryAgent IN
     req' = [req EXCEPT ![s].pc = IF agentEmail # Absent THEN "release" ELSE "mail",
                        ![s].agent = agentEmail]
  /\ res' = Res("patch", 0, FALSE, FALSE)
  /\ UNCHANGED <<parcels, users, reg>>

\* await usersCollection.updateOne({email: agentEmail}, {$set: {availability: "available"}})
PatchRelease(s) ==
  /\ req[s].pc = "release"
  /\ UNCHANGED <<parcels, reg>>
  /\ \E outcome \in CallOutcomes :
       IF outcome = "ok"
       THEN /\ users' = UpdateUser(req[s].agent, [role |-> Absent, availability |-> "available"])
            /\ req' = [req EXCEPT ![s].pc = "mail", ![s].released = TRUE]
            /\ res' = Res("patch", 0, FALSE, FALSE)
       ELSE /\ res' = Res("patch", 500, FALSE, FALSE)
            /\ req' = [req EXCEPT ![s] = Idle]
            /\ UNCHANGED users

\* await transporter.sendMail(mailOptions); res.send(result)
PatchMail(s) ==
  /\ req[s].pc = "mail"
  /\ UNCHANGED <<parcels, users, reg>>
  /\ req' = [req EXCEPT ![s] = Idle]
  /\ \E outcome \in CallOutcomes :
       res' = IF outcome = "ok" THEN Res("patch", 200, FALSE, TRUE)
                               ELSE Res("patch", 500, FALSE, FALSE)

\* the client sends the terminal PATCH of parcel id again because the agent is not
\* yet available: the same handler, the same id, the status already stored
PatchRetry(id) ==
  /\ \E s \in Slots : req[s].pc = "idle"
  /\ \A s \in Slots : req[s].id # id
  /\ AuthCode("ag1", "deliveryAgent") = 0
  /\ IsFollowUp(parcels[id].status)
  /\ parcels[id].deliveryAgent # Absent
  /\ ~Available(parcels[id].deliveryAgent)
  /\ UNCHANGED <<users, reg>>
  /\ PatchAccepted(FreeSlot, id, [email |-> Absent, status |-> parcels[id].status,
                                  deliveryAgent |-> Absent, pickup |-> Absent,
                                  delivery |-> Absent])

\* ------------------------------------------------------------- GET /parcels/assigned
\* find({"deliveryAgent.email": email, status: {$nin: ["Delivered", "Failed"]}})
AssignedParcels(email) ==
  { id \in 1..Len(parcels) :
      /\ parcels[id].deliveryAgent = email
      /\ parcels[id].status \notin {"Delivered", "Failed"} }

\* the ?email= of the query
QueryEmails == {"ag1"}

\* the whole request: role checks, find(query).toArray(), res.send or the catch
GetAssigned ==
  /\ UNCHANGED <<parcels, users, req, reg>>
  /\ \E caller \in Callers :
       LET auth == AuthCode(caller, "deliveryAgent") IN
       IF auth # 0
       THEN res' = Res("auth", auth, FALSE, FALSE)
       ELSE \E email \in QueryEmails, outcome \in CallOutcomes :
              res' = IF outcome = "ok"
                     THEN [Res("assigned", 200, FALSE, FALSE)
                             EXCEPT !.list = AssignedParcels(email)]
                     ELSE Res("assigned", 500, FALSE, FALSE)

\* ------------------------------------------------------------- specifications
Next ==
  \/ Book
  \/ GetAssigned
  \/ PatchRole
  \/ PatchParcel
  \/ \E s \in Slots : PatchFind(s)
  \/ \E s \in Slots : PatchRelease(s)
  \/ \E s \in Slots : PatchMail(s)

Spec == Init /\ [][Next]_vars

\* the users store on its own: every handler step that writes usersCollection, from
\* the states in which PATCH handlers have committed Delivered on parcels that
\* reference the registered agent or an address that is not registered
ReleaseAgents == {"ag1", "ag0"}

InitUsers ==
  /\ \E availability \in {"available", "busy"} :
       users = << [email |-> "adm", role |-> "admin", availability |-> Absent],
                  [email |-> "cus", role |-> "customer", availability |-> Absent],
                  [email |-> "ag1", role |-> "deliveryAgent",
                   availability |-> availability] >>
  /\ \E agentOf \in [ParcelIds -> ReleaseAgents] :
       parcels = [id \in ParcelIds |->
                    [email |-> "cus", status |-> "Delivered", deliveryAgent |-> agentOf[id],
                     pickup |-> Coords, delivery |-> Coords]]
  /\ \E idOf \in [Slots -> ParcelIds] :
       req = [s \in Slots |->
                [pc |-> "find", id |-> idOf[s], status |-> "Delivered",
                 wasAssigned |-> FALSE, agent |-> Absent, released |-> FALSE]]
  /\ reg = [r \in Slots |-> RegIdle]
  /\ res = Res("none", 0, FALSE, FALSE)

NextUsers ==
  \/ PostUsersFind
  \/ \E r \in Slots : PostUsersInsert(r)
  \/ PatchRole
  \/ \E s \in Slots : PatchFind(s)
  \/ \E s \in Slots : PatchRelease(s)
  \/ \E s \in Slots : PatchMail(s)

SpecUsers == InitUsers /\ [][NextUsers]_vars

\* ------------------------------------------------------------- the lifecycle contract
\* the transition table: from -> allowed-to
Edges ==
  { <<"Pending", "Assigned">>, <<"Pending", "Cancelled">>,
    <<"Assigned", "InTransit">>, <<"Assigned", "Delivered">>, <<"Assigned", "Failed">>,
    <<"InTransit", "Delivered">>, <<"InTransit", "Failed">> }

Terminal == {"Delivered", "Failed", "Cancelled"}

Stored == 1..Len(parcels)

\* parcels that reference the agent and are not yet terminal
OpenAssignments(email) ==
  { id \in Stored : parcels[id].deliveryAgent = email /\ parcels[id].status \notin Terminal }

\* C1: the stored status of a parcel only ever changes along an edge of the
\* transition table; any other requested change leaves the record as it was
C1_StatusFollowsEdges ==
  [][\A id \in Stored :
       parcels'[id].status # parcels[id].status
         => <<parcels[id].status, parcels'[id].status>> \in Edges]_vars

\* C2: once a parcel is Delivered, Failed or Cancelled, its status stays at that
\* terminal value in every later state
C2_TerminalIsFinal ==
  [][\A id \in Stored :
       parcels[id].status \in Terminal => parcels'[id].status = parcels[id].status]_vars

\* C3: an agent referenced by one or more non-terminal parcels is busy; available
\* occurs only with zero open assignments
C3_BusyWhileOpen ==
  \A i \in 1..Len(users) :
    OpenAssignments(users[i].email) # {} => users[i].availability = "busy"

\* C4: after a PATCH committed Delivered or Failed on a parcel with an agent, the
\* agent becomes available, if need be through the client's retry of the same
\* request: the retry leaves the agent available or a handler on its way to the
\* release; and the agent's assigned-parcels query never returns that parcel
C4_ReleasedEventually ==
  /\ [][\A id \in Stored :
          PatchRetry(id)
            => \/ Available(parcels[id].deliveryAgent)'
               \/ \E s \in Slots : req'[s].pc = "find" /\ req'[s].id = id]_vars
  /\ [](\A id \in Stored :
          IsFollowUp(parcels[id].status) /\ parcels[id].deliveryAgent # Absent
            => id \notin AssignedParcels(parcels[id].deliveryAgent))

\* a step is a booking whose pickup or delivery lookup returned null
NotFoundBooking ==
  res'.op = "book" /\ res'.geo # NoGeo /\ (res'.geo[1] = Absent \/ res'.geo[2] = Absent)

\* C5: a booking in which a lookup reports NotFound is answered 400, inserts no
\* parcel and sends no email
C5_NotFoundIs400 ==
  [][NotFoundBooking => res'.code = 400 /\ parcels' = parcels /\ ~res'.mail]_vars

\* C6: on a terminal transition the release and the email are independent: the
\* handler leaves the release step only towards the email step, whatever the
\* release did, and the committed parcel stays as written
C6_ReleaseThenMail ==
  [][\A s \in Slots :
       req[s].pc = "release" /\ req'[s].pc # "release"
         => req'[s].pc = "mail" /\ parcels' = parcels]_vars

\* C7: once the insert or the update is persisted, a failing notification is
\* swallowed: the response of the booking, and of the PATCH whose last step is
\* the status email, is not an error
C7_NotificationSwallowed ==
  [][/\ Len(parcels') > Len(parcels) => res'.code = 200
     /\ \A s \in Slots : req[s].pc = "mail" /\ req'[s].pc = "idle" => res'.code = 200]_vars

\* a handler that wrote Delivered on the parcel and has not yet answered
CommittedDelivered(s) ==
  /\ req[s].pc # "idle"
  /\ req[s].status = "Delivered"
  /\ parcels[req[s].id].status = "Delivered"

\* C8: when two terminal-transition requests race on a parcel, the one whose write
\* comes after the other committed Delivered does not get its write through: the
\* committed Delivered is not overwritten by the racing Failed
C8_RaceLoserRejected ==
  [][\A s \in Slots :
       CommittedDelivered(s) => parcels'[req[s].id].status # "Failed"]_vars

\* C9: every record a booking inserts is Pending, has both coordinates and has
\* no agent reference, whatever the body carried
C9_BookedPending ==
  [][Len(parcels') > Len(parcels)
       => LET new == parcels'[Len(parcels')] IN
          /\ new.status = "Pending"
          /\ new.pickup = Coords
          /\ new.delivery = Coords
          /\ new.deliveryAgent = Absent]_vars

\* C10: a PATCH {status: Delivered} on a parcel Assigned to an agent succeeds: its
\* handler answers 200 after the broadcast, the release of the agent and the
\* status email
C10_DeliveredScenario ==
  [][\A s \in Slots :
       /\ req[s].status = "Delivered"
       /\ req[s].wasAssigned
       /\ req[s].pc = "release" \/ req[s].released
       /\ req'[s].pc = "idle"
       => /\ req[s].pc = "mail"
          /\ req[s].released
          /\ res'.code = 200
          /\ res'.mail]_vars

\* the statuses a parcel has from its assignment on
PostAssignment == {"Assigned", "InTransit", "Delivered", "Failed"}

\* C11: a parcel whose status is Assigned, InTransit, Delivered or Failed has an
\* agent reference, and the update that sets the agent reference of a parcel for
\* the first time leaves the parcel in status Assigned
C11_AgentSetWithAssigned ==
  /\ [](\A id \in Stored :
          parcels[id].status \in PostAssignment => parcels[id].deliveryAgent # Absent)
  /\ [][\A id \in Stored :
          parcels[id].deliveryAgent = Absent /\ parcels'[id].deliveryAgent # Absent
            => parcels'[id].status = "Assigned"]_vars

\* the step changes the availability flag of a stored user
AvailabilityWritten ==
  \E i \in 1..Len(users) : users'[i].availability # users[i].availability

\* the step changes the status of a stored parcel, or stores a new parcel
StatusWritten ==
  \/ Len(parcels') # Len(parcels)
  \/ \E id \in Stored : parcels'[id].status # parcels[id].status

\* the step is the availability write of a terminal-transition handler
ReleaseStep == \E s \in Slots : req[s].pc = "release" /\ req'[s].pc = "mail"

\* the step is a booking, or the write of a PATCH /parcels/:id
ParcelWriteStep == res'.op = "book" \/ (res'.op = "patch" /\ res'.emit)

\* C12: the availability flag is written only by the terminal-transition path of
\* PATCH /parcels/:id, and the parcel status only by booking and PATCH
\* /parcels/:id; every other operation, PATCH /users/role/:email included,
\* leaves both unchanged
C12_CoordinatorSoleWriter ==
  [][/\ AvailabilityWritten => ReleaseStep
     /\ StatusWritten => ParcelWriteStep]_vars

\* C12 as amended: the availability flag is written only by the terminal-transition
\* path of PATCH /parcels/:id and by the admin's PATCH /users/role/:email, and
\* the parcel status only by booking and PATCH /parcels/:id
C12_AvailabilityWriters ==
  [][/\ AvailabilityWritten => ReleaseStep \/ (res'.op = "role" /\ res'.code = 200)
     /\ StatusWritten => ParcelWriteStep]_vars

\* the admin's role edit has just marked the agent busy while a parcel is stored
C12_RoleWroteBusy ==
  res.op = "role" /\ res.code = 200 /\ ~Available("ag1") /\ Len(parcels) > 0

\* C13: GET /parcels/assigned?email=E answers exactly the open assignments of E:
\* the parcels that reference E and are not Delivered, Failed or Cancelled
C13_AssignedAreOpen ==
  [][res'.op = "assigned" /\ res'.code = 200
       => \E email \in QueryEmails : res'.list = OpenAssignments(email)]_vars

\* the caller carries no token, or no record of the caller carries the role
NotInRole(caller, role) ==
  \/ caller = NoToken
  \/ \A i \in 1..Len(users) : users[i].email = caller => users[i].role # role

\* the step is a PATCH /parcels/:id or a POST /parcels of a caller without the role
RejectedRequest ==
  \/ /\ res'.op \in {"auth", "patch"}
     /\ \E caller \in Callers : NotInRole(caller, "deliveryAgent") /\ PatchParcelBy(caller)
  \/ /\ res'.op \in {"auth", "book"}
     /\ \E caller \in Callers : NotInRole(caller, "customer") /\ BookBy(caller)

\* C14: a PATCH /parcels/:id from a caller who is not a delivery agent, and a POST
\* /parcels from a caller who is not a customer, is answered 401 or 403, leaves
\* the parcels, the users and the handlers in flight as they were and triggers
\* no broadcast and no email
C14_RejectedBeforeHandler ==
  [][RejectedRequest
       => /\ res'.code \in {401, 403}
          /\ UNCHANGED <<parcels, users, req>>
          /\ ~res'.emit /\ ~res'.mail]_vars

\* a request was just refused for the caller's role while a parcel is stored and
\* the store is full, so that the request was not a booking
C14_PatchRefused ==
  res.op = "auth" /\ res.code = 403 /\ Len(parcels) = MaxParcels

\* the step is a PATCH /parcels/:id of the agent with an id no parcel has
UnknownIdPatch ==
  /\ res'.op = "patch"
  /\ ~NotInRole("ag1", "deliveryAgent")
  /\ \E s \in Slots : req[s].pc = "idle"
  /\ UNCHANGED <<users, reg>>
  /\ \E id \in ParcelIds, body \in PatchBodies :
       id > Len(parcels) /\ PatchAccepted(FreeSlot, id, body)

\* C15: a PATCH /parcels/:id whose id matches no stored parcel is answered with an
\* error, changes no parcel and no availability and triggers no broadcast and no
\* email
C15_UnknownIdNotFound ==
  [][UnknownIdPatch
       => /\ res'.code >= 400
          /\ UNCHANGED <<parcels, users, req>>
          /\ ~res'.emit /\ ~res'.mail]_vars

\* C16: the users store never holds two records with one email, and a record is
\* inserted only for an email the store does not hold
C16_OneRecordPerEmail ==
  /\ [](\A i, j \in 1..Len(users) : users[i].email = users[j].email => i = j)
  /\ [][Len(users') > Len(users) => FindUser(users'[Len(users')].email) = 0]_vars

\* the update the release applies
Released == [role |-> Absent, availability |-> "available"]

\* C17: the release leaves the agent available and every other record as it was,
\* whatever the store held before (so two releases commute); applied to the
\* store it produced it changes nothing; for an agent that is already available,
\* or that has no record, it changes nothing and the handler goes on to the email
C17_ReleaseIdempotent ==
  [][\A s \in Slots :
       req[s].pc = "release" /\ req'[s].pc = "mail"
         => /\ Len(users') = Len(users)
            /\ \A i \in 1..Len(users) :
                 users'[i] = IF i = FindUser(req[s].agent)
                             THEN [users[i] EXCEPT !.availability = "available"]
                             ELSE users[i]
            /\ FindUser(req[s].agent) = 0 \/ Available(req[s].agent) => users' = users
            /\ UpdateUser(req[s].agent, Released)' = users'
            /\ res'.code = 0]_vars

\* two handlers have both released one registered agent and are on to the email
C17_ReleasedTwice ==
  \E s, t \in Slots :
    /\ s # t
    /\ req[s].pc = "mail" /\ req[s].released
    /\ req[t].pc = "mail" /\ req[t].released
    /\ req[s].agent = req[t].agent
    /\ Available(req[s].agent)

\* C18: the broadcast goes out only in a step that changed a stored parcel; a
\* handler enters the follow-up only with a write that changed its parcel; the
\* release and the status email are steps of a handler in the follow-up. So a
\* request whose write changes no parcel (an unknown id, a repeated body)
\* broadcasts nothing, releases no agent, sends no email
C18_EffectsAfterModifyingWrite ==
  [][/\ res'.emit => \E id \in Stored : parcels'[id] # parcels[id]
     /\ \A s \in Slots :
          req[s].pc = "idle" /\ req'[s].pc # "idle"
            => parcels'[req'[s].id] # parcels[req'[s].id] /\ res'.emit
     /\ res'.op = "patch" /\ res'.mail => \E s \in Slots : req[s].pc = "mail"
     /\ res'.op = "patch" /\ users' # users => \E s \in Slots : req[s].pc = "release"]_vars

\* a repeated PATCH on a Delivered parcel of a busy agent was just answered: no
\* broadcast, no email, the agent still busy
C18_RepeatedDelivered ==
  /\ res.op = "patch" /\ res.code = 200 /\ ~res.emit /\ ~res.mail
  /\ \E id \in Stored :
       /\ parcels[id].status = "Delivered"
       /\ parcels[id].deliveryAgent = "ag1"
       /\ ~Available("ag1")
====
